---- MODULE Spec2Model ----
(***************************************************************************)
(* SimpleWebGuard: the orchestrator (index.js), the four analyzers         *)
(* (serverFingerprint.js, headerScanner.js, sslChecker.js, portScanner.js) *)
(* and the event handlers they register, as one state machine.             *)
(*                                                                         *)
(* A step of the model is one turn of the Node.js event loop: the handler  *)
(* of one network event together with every promise continuation it        *)
(* schedules up to the next await on the network.                          *)
(***************************************************************************)
EXTENDS Naturals, Integers, Sequences, FiniteSets

VARIABLES
    pc,          \* where SimpleWebGuard.runScanners / PortScanner.scan is suspended
    scheme,      \* parsedUrl.protocol of the validated target URL: "http" or "https"
    log,         \* everything written through Logger, in order
    attempts,    \* HTTP(S) request -> how many times it was issued
    connects,    \* catalog index -> how many times socket.connect was called
    started,     \* analyzers whose scan() has been entered, in order
    completed,   \* analyzers whose scan() promise has resolved
    raised,      \* analyzers inside which a network operation failed
    sock,        \* catalog index -> state of the probe's net.Socket
    sockEvents,  \* catalog index -> the events emitted on that socket, in order
    promise,     \* catalog index -> checkPort's promise: <<>> pending, <<r>> resolved
    values,      \* catalog index -> Promise.all's slot for that input promise
    results,     \* what scanPorts returned to scan: <<>> until then, <<array>> after
    tlsSocket,   \* the connection of checkCertificate's https.request
    target,      \* the scanned host: catalog index -> what a connection attempt to
                 \* that port meets: "accept", "refuse" (error) or "drop" (silence)
    input        \* what one analyzer is given when it is examined alone: the
                 \* command-line argument, the hostname, and the status, headers
                 \* and TLS session the target answers with

vars == <<pc, scheme, log, attempts, connects, started, completed, raised,
          sock, sockEvents, promise, values, results, tlsSocket, target, input>>

portVars == <<connects, sock, sockEvents, promise, values, results>>

targetVars == <<scheme, target, input>>

(***************************************************************************)
(* Bounds of the model.                                                    *)
(***************************************************************************)
\* In the port prober's own specification the target's answer varies on
\* MaxVaried catalog ports, from port 80 on (80, 443, then 3306, ...); the
\* other ports refuse.
MaxVaried == 2

(***************************************************************************)
(* Logger (src/src/utils/logger.js).  A log entry keeps the analyzer that  *)
(* wrote it, the Logger function, the severity (vulnerability only), a     *)
(* tag for the message text and the number the text quotes (a port, a day  *)
(* count; 0: none).                                                        *)
(***************************************************************************)
Entry(an, fn, sev, msg, num) ==
    [an |-> an, fn |-> fn, sev |-> sev, msg |-> msg, num |-> num]

LogError(an, msg) == Entry(an, "error", "-", msg, 0)
LogInfo(an, msg) == Entry(an, "info", "-", msg, 0)
LogSection(an) == Entry(an, "section", "-", "section", 0)
LogResult(an, msg, isGood, num) ==
    Entry(an, "result", IF isGood THEN "good" ELSE "bad", msg, num)
LogVulnerability(an, severity, msg, num) ==
    Entry(an, "vulnerability", severity, msg, num)

Analyzers == <<"fingerprint", "headers", "tls", "ports">>

(***************************************************************************)
(* JavaScript strings are sequences of one-character strings.  A header    *)
(* that is absent (undefined) and one that is empty are both falsy and the *)
(* code tests nothing else, so both are the empty sequence.                *)
(***************************************************************************)
lowerLetters ==
    << "a", "b", "c", "d", "e", "f", "g", "h", "i", "j", "k", "l", "m",
       "n", "o", "p", "q", "r", "s", "t", "u", "v", "w", "x", "y", "z" >>

upperLetters ==
    << "A", "B", "C", "D", "E", "F", "G", "H", "I", "J", "K", "L", "M",
       "N", "O", "P", "Q", "R", "S", "T", "U", "V", "W", "X", "Y", "Z" >>

digits == << "0", "1", "2", "3", "4", "5", "6", "7", "8", "9" >>

IsDigit(c) == \E k \in 1..Len(digits) : digits[k] = c

DigitValue(c) == (CHOOSE k \in 1..Len(digits) : digits[k] = c) - 1

\* String.prototype.toUpperCase
toUpperCase(str) ==
    [k \in 1..Len(str) |->
        IF \E j \in 1..Len(lowerLetters) : lowerLetters[j] = str[k]
        THEN upperLetters[CHOOSE j \in 1..Len(lowerLetters) : lowerLetters[j] = str[k]]
        ELSE str[k]]

\* String.prototype.toLowerCase
toLowerCase(str) ==
    [k \in 1..Len(str) |->
        IF \E j \in 1..Len(upperLetters) : upperLetters[j] = str[k]
        THEN lowerLetters[CHOOSE j \in 1..Len(upperLetters) : upperLetters[j] = str[k]]
        ELSE str[k]]

\* str occurs in text at (1-based) position k
OccursAt(text, str, k) ==
    /\ k >= 1
    /\ k + Len(str) - 1 <= Len(text)
    /\ SubSeq(text, k, k + Len(str) - 1) = str

\* String.prototype.includes
includes(text, str) == \E k \in 1..(Len(text) + 1) : OccursAt(text, str, k)

\* String.prototype.startsWith
startsWith(text, str) == OccursAt(text, str, 1)

\* String.prototype.endsWith
endsWith(text, str) ==
    Len(str) <= Len(text) /\ OccursAt(text, str, Len(text) - Len(str) + 1)

\* String.prototype.substring(from) with a 0-based from
substring(text, from) == SubSeq(text, from + 1, Len(text))

\* The strings the code compares with.
str_DENY == << "D", "E", "N", "Y" >>
str_SAMEORIGIN == << "S", "A", "M", "E", "O", "R", "I", "G", "I", "N" >>
str_nosniff == << "n", "o", "s", "n", "i", "f", "f" >>
str_maxage == << "m", "a", "x", "-", "a", "g", "e", "=" >>
str_nginx == << "n", "g", "i", "n", "x" >>
str_apache == << "a", "p", "a", "c", "h", "e" >>
str_iis == << "i", "i", "s" >>
str_microsoft == << "m", "i", "c", "r", "o", "s", "o", "f", "t" >>
str_cloudflare == << "c", "l", "o", "u", "d", "f", "l", "a", "r", "e" >>
str_lighttpd == << "l", "i", "g", "h", "t", "t", "p", "d" >>
str_caddy == << "c", "a", "d", "d", "y" >>
str_php == << "p", "h", "p" >>
str_asp == << "a", "s", "p" >>
str_express == << "e", "x", "p", "r", "e", "s", "s" >>
str_https == << "h", "t", "t", "p", "s", ":", "/", "/" >>
str_wildcard == << "*", "." >>

(***************************************************************************)
(* ServerFingerprint (src/src/scanners/serverFingerprint.js, lines 1-148)  *)
(***************************************************************************)
\* /\d+\.\d+/.test(str): a digit, a dot and a digit in a row somewhere.
versionPattern(str) ==
    \E k \in 1..Len(str) :
        /\ k + 2 <= Len(str)
        /\ IsDigit(str[k])
        /\ str[k + 1] = "."
        /\ IsDigit(str[k + 2])

\* Mutant of identifyServer: every family found in the value is reported.
identifyServer_everyFamily(server) ==
    LET serverLower == toLowerCase(server)
        an == "fingerprint"
    IN  (IF includes(serverLower, str_nginx)
         THEN << LogInfo(an, "detected-nginx"), LogInfo(an, "common-ports") >>
         ELSE <<>>)
        \o (IF includes(serverLower, str_apache)
            THEN << LogInfo(an, "detected-apache"), LogInfo(an, "common-ports") >>
            ELSE <<>>)
        \o (IF includes(serverLower, str_iis) \/ includes(serverLower, str_microsoft)
            THEN << LogInfo(an, "detected-iis"), LogInfo(an, "platform-windows") >>
            ELSE <<>>)
        \o (IF includes(serverLower, str_cloudflare)
            THEN << LogInfo(an, "detected-cloudflare"), LogInfo(an, "note-cloudflare") >>
            ELSE <<>>)
        \o (IF includes(serverLower, str_lighttpd)
            THEN << LogInfo(an, "detected-lighttpd") >>
            ELSE <<>>)
        \o (IF includes(serverLower, str_caddy)
            THEN << LogInfo(an, "detected-caddy") >>
            ELSE <<>>)

\* ServerFingerprint.identifyServer
identifyServer(server) ==
    LET serverLower == toLowerCase(server)
        an == "fingerprint"
    IN  IF includes(serverLower, str_nginx)
        THEN << LogInfo(an, "detected-nginx"), LogInfo(an, "common-ports") >>
        ELSE IF includes(serverLower, str_apache)
        THEN << LogInfo(an, "detected-apache"), LogInfo(an, "common-ports") >>
        ELSE IF includes(serverLower, str_iis) \/ includes(serverLower, str_microsoft)
        THEN << LogInfo(an, "detected-iis"), LogInfo(an, "platform-windows") >>
        ELSE IF includes(serverLower, str_cloudflare)
        THEN << LogInfo(an, "detected-cloudflare"), LogInfo(an, "note-cloudflare") >>
        ELSE IF includes(serverLower, str_lighttpd)
        THEN << LogInfo(an, "detected-lighttpd") >>
        ELSE IF includes(serverLower, str_caddy)
        THEN << LogInfo(an, "detected-caddy") >>
        ELSE <<>>

\* ServerFingerprint.checkServerHeader
checkServerHeader(headers) ==
    LET server == headers["server"]
        an == "fingerprint"
    IN  IF server # <<>>
        THEN << LogResult(an, "server", FALSE, 0) >>
             \o (IF versionPattern(server)
                 THEN << LogVulnerability(an, "medium", "server-version-disclosed", 0),
                         LogInfo(an, "recommend-hide-version") >>
                 ELSE << LogInfo(an, "version-hidden") >>)
             \o identifyServer(server)
        ELSE << LogResult(an, "server-not-disclosed", TRUE, 0),
                LogInfo(an, "server-hidden") >>

\* ServerFingerprint.checkPoweredBy
checkPoweredBy(headers) ==
    LET poweredBy == headers["x-powered-by"]
        an == "fingerprint"
    IN  IF poweredBy # <<>>
        THEN << LogResult(an, "x-powered-by", FALSE, 0),
                LogVulnerability(an, "medium", "x-powered-by-disclosed", 0) >>
             \o (IF includes(toLowerCase(poweredBy), str_php)
                 THEN << LogInfo(an, "technology-php") >>
                 ELSE IF includes(toLowerCase(poweredBy), str_asp)
                 THEN << LogInfo(an, "technology-aspnet") >>
                 ELSE IF includes(toLowerCase(poweredBy), str_express)
                 THEN << LogInfo(an, "technology-express") >>
                 ELSE <<>>)
        ELSE << LogResult(an, "x-powered-by-not-present", TRUE, 0),
                LogInfo(an, "x-powered-by-hidden") >>

revealingHeaders ==
    << "x-aspnet-version", "x-aspnetmvc-version", "x-generator",
       "x-drupal-cache", "x-varnish", "via" >>

\* The loop of checkOtherHeaders from revealingHeaders[k] on.
RECURSIVE checkOtherHeadersFrom(_, _, _)
checkOtherHeadersFrom(headers, k, foundRevealing) ==
    IF k > Len(revealingHeaders)
    THEN IF foundRevealing THEN <<>>
         ELSE << LogInfo("fingerprint", "no-other-disclosure") >>
    ELSE IF headers[revealingHeaders[k]] # <<>>
         THEN (IF foundRevealing THEN <<>>
               ELSE << LogInfo("fingerprint", "other-disclosure-headers") >>)
              \o << LogVulnerability("fingerprint", "low", revealingHeaders[k], 0) >>
              \o checkOtherHeadersFrom(headers, k + 1, TRUE)
         ELSE checkOtherHeadersFrom(headers, k + 1, foundRevealing)

\* ServerFingerprint.checkOtherHeaders
checkOtherHeaders(headers) == checkOtherHeadersFrom(headers, 1, FALSE)

(***************************************************************************)
(* HeaderScanner (src/src/index.js, lines 132-296)                         *)
(***************************************************************************)
\* The digits of str from position k on, as long as they last.
RECURSIVE digitRun(_, _)
digitRun(str, k) ==
    IF k <= Len(str) /\ IsDigit(str[k])
    THEN << str[k] >> \o digitRun(str, k + 1)
    ELSE <<>>

\* parseInt of a string of digits
RECURSIVE parseInt(_)
parseInt(ds) ==
    IF ds = <<>> THEN 0
    ELSE 10 * parseInt(SubSeq(ds, 1, Len(ds) - 1)) + DigitValue(ds[Len(ds)])

\* hsts.match(/max-age=(\d+)/): the positions where the pattern matches
maxAgeMatches(hsts) ==
    {k \in 1..Len(hsts) :
        OccursAt(hsts, str_maxage, k) /\ digitRun(hsts, k + Len(str_maxage)) # <<>>}

sixMonthsInSeconds == 15552000

\* HeaderScanner.checkCSP
checkCSP(headers) ==
    LET csp == headers["content-security-policy"]
    IN  IF csp # <<>>
        THEN << LogResult("headers", "csp-present", TRUE, 0),
                LogInfo("headers", "csp-value") >>
        ELSE << LogResult("headers", "csp-missing", FALSE, 0),
                LogVulnerability("headers", "high", "csp-missing", 0) >>

\* HeaderScanner.checkHSTS
checkHSTS(headers) ==
    LET hsts == headers["strict-transport-security"]
        maxAgeMatch == maxAgeMatches(hsts)
        first == CHOOSE k \in maxAgeMatch : \A j \in maxAgeMatch : k <= j
        maxAge == parseInt(digitRun(hsts, first + Len(str_maxage)))
    IN  IF hsts # <<>>
        THEN << LogResult("headers", "hsts-present", TRUE, 0),
                LogInfo("headers", "hsts-value") >>
             \o (IF maxAgeMatch # {} /\ maxAge < sixMonthsInSeconds
                 THEN << LogVulnerability("headers", "medium", "hsts-max-age-low", 0) >>
                 ELSE <<>>)
        ELSE << LogResult("headers", "hsts-missing", FALSE, 0),
                LogVulnerability("headers", "high", "hsts-missing", 0) >>

\* Mutant of checkXFrameOptions: the value is compared as it was sent.
checkXFrameOptions_caseSensitive(headers) ==
    LET xFrameOptions == headers["x-frame-options"]
        isSecure == xFrameOptions = str_DENY \/ xFrameOptions = str_SAMEORIGIN
    IN  IF xFrameOptions # <<>>
        THEN << LogResult("headers", "x-frame-options-value", isSecure, 0) >>
             \o (IF ~isSecure
                 THEN << LogVulnerability("headers", "medium", "x-frame-options-weak", 0) >>
                 ELSE <<>>)
        ELSE << LogResult("headers", "x-frame-options-missing", FALSE, 0),
                LogVulnerability("headers", "medium", "x-frame-options-missing", 0) >>

\* HeaderScanner.checkXFrameOptions
checkXFrameOptions(headers) ==
    LET xFrameOptions == headers["x-frame-options"]
        value == toUpperCase(xFrameOptions)
        isSecure == value = str_DENY \/ value = str_SAMEORIGIN
    IN  IF xFrameOptions # <<>>
        THEN << LogResult("headers", "x-frame-options-value", isSecure, 0) >>
             \o (IF ~isSecure
                 THEN << LogVulnerability("headers", "medium", "x-frame-options-weak", 0) >>
                 ELSE <<>>)
        ELSE << LogResult("headers", "x-frame-options-missing", FALSE, 0),
                LogVulnerability("headers", "medium", "x-frame-options-missing", 0) >>

\* HeaderScanner.checkXContentTypeOptions
checkXContentTypeOptions(headers) ==
    LET xContentType == headers["x-content-type-options"]
    IN  IF xContentType # <<>> /\ toLowerCase(xContentType) = str_nosniff
        THEN << LogResult("headers", "x-content-type-options-nosniff", TRUE, 0) >>
        ELSE << LogResult("headers", "x-content-type-options-bad", FALSE, 0),
                LogVulnerability("headers", "low", "x-content-type-options-bad", 0) >>

\* HeaderScanner.checkXSSProtection
checkXSSProtection(headers) ==
    IF headers["x-xss-protection"] # <<>>
    THEN << LogResult("headers", "x-xss-protection-value", TRUE, 0) >>
    ELSE << LogResult("headers", "x-xss-protection-missing", FALSE, 0),
            LogVulnerability("headers", "info", "x-xss-protection-missing", 0) >>

\* HeaderScanner.checkReferrerPolicy
checkReferrerPolicy(headers) ==
    IF headers["referrer-policy"] # <<>>
    THEN << LogResult("headers", "referrer-policy-value", TRUE, 0) >>
    ELSE << LogResult("headers", "referrer-policy-missing", FALSE, 0),
            LogVulnerability("headers", "low", "referrer-policy-missing", 0) >>

\* HeaderScanner.checkPermissionsPolicy
checkPermissionsPolicy(headers) ==
    LET permissionsPolicy ==
            IF headers["permissions-policy"] # <<>>
            THEN headers["permissions-policy"]
            ELSE headers["feature-policy"]
    IN  IF permissionsPolicy # <<>>
        THEN << LogResult("headers", "permissions-policy-present", TRUE, 0) >>
        ELSE << LogResult("headers", "permissions-policy-missing", FALSE, 0),
                LogVulnerability("headers", "info", "permissions-policy-missing", 0) >>

\* The names of the headers the two analyzers read.
HeaderNames ==
    { "server", "x-powered-by", "x-aspnet-version", "x-aspnetmvc-version",
      "x-generator", "x-drupal-cache", "x-varnish", "via",
      "content-security-policy", "strict-transport-security", "x-frame-options",
      "x-content-type-options", "x-xss-protection", "referrer-policy",
      "permissions-policy", "feature-policy" }

NoHeaders == [n \in HeaderNames |-> <<>>]

(***************************************************************************)
(* SSLChecker (src/src/scanners/serverFingerprint.js, lines 150-376)       *)
(*                                                                         *)
(* Times are whole hours.  A name attribute of a certificate (CN, O) is    *)
(* undefined, a string, or, when the certificate repeats the attribute, an *)
(* array of strings (tls.getPeerCertificate).  A check returns the Logger  *)
(* calls it made and whether it threw.                                     *)
(***************************************************************************)
HoursPerDay == 24

Undefined == [type |-> "undefined", str |-> <<>>, items |-> <<>>]
String(str) == [type |-> "string", str |-> str, items |-> <<>>]
Array(items) == [type |-> "array", str |-> <<>>, items |-> items]

\* JavaScript truthiness of such a value
Truthy(v) == v.type = "array" \/ (v.type = "string" /\ v.str # <<>>)

\* a === b for such values; two arrays are two objects
StrictEquals(a, b) ==
    \/ a.type = "undefined" /\ b.type = "undefined"
    \/ a.type = "string" /\ b.type = "string" /\ a.str = b.str

Returned(entries) == [log |-> entries, threw |-> FALSE]
Threw(entries) == [log |-> entries, threw |-> TRUE]

\* Mutant of checkCertificateValidity: the warning includes the 30th day.
checkCertificateValidity_inclusive(cert, now) ==
    LET validFrom == cert.valid_from
        validTo == cert.valid_to
        daysUntilExpiry == (validTo - now) \div HoursPerDay
    IN  IF now < validFrom
        THEN << LogResult("tls", "certificate-not-yet-valid", FALSE, 0),
                LogVulnerability("tls", "critical", "certificate-not-valid-until", 0) >>
        ELSE IF now > validTo
        THEN << LogResult("tls", "certificate-expired", FALSE, 0),
                LogVulnerability("tls", "critical", "certificate-expired-on", 0) >>
        ELSE << LogResult("tls", "certificate-valid", TRUE, 0),
                LogInfo("tls", "valid-until") >>
             \o (IF daysUntilExpiry <= 30
                 THEN << LogVulnerability("tls", "medium", "certificate-expires-soon",
                                          daysUntilExpiry) >>
                 ELSE <<>>)

\* SSLChecker.checkCertificateValidity
checkCertificateValidity(cert, now) ==
    LET validFrom == cert.valid_from
        validTo == cert.valid_to
        daysUntilExpiry == (validTo - now) \div HoursPerDay
    IN  IF now < validFrom
        THEN << LogResult("tls", "certificate-not-yet-valid", FALSE, 0),
                LogVulnerability("tls", "critical", "certificate-not-valid-until", 0) >>
        ELSE IF now > validTo
        THEN << LogResult("tls", "certificate-expired", FALSE, 0),
                LogVulnerability("tls", "critical", "certificate-expired-on", 0) >>
        ELSE << LogResult("tls", "certificate-valid", TRUE, 0),
                LogInfo("tls", "valid-until") >>
             \o (IF daysUntilExpiry < 30
                 THEN << LogVulnerability("tls", "medium", "certificate-expires-soon",
                                          daysUntilExpiry) >>
                 ELSE <<>>)

trustedCAs ==
    << << "L", "e", "t", "'", "s", " ", "E", "n", "c", "r", "y", "p", "t" >>,
       << "D", "i", "g", "i", "C", "e", "r", "t" >>,
       << "C", "o", "m", "o", "d", "o" >>,
       << "G", "e", "o", "T", "r", "u", "s", "t" >>,
       << "G", "l", "o", "b", "a", "l", "S", "i", "g", "n" >>,
       << "S", "e", "c", "t", "i", "g", "o" >> >>

str_Unknown == << "U", "n", "k", "n", "o", "w", "n" >>

\* issuerName.includes(ca): String.prototype.includes on a string,
\* Array.prototype.includes on an array
nameIncludes(issuerName, ca) ==
    IF issuerName.type = "array"
    THEN \E k \in 1..Len(issuerName.items) : issuerName.items[k] = ca
    ELSE includes(issuerName.str, ca)

\* SSLChecker.checkCertificateIssuer
checkCertificateIssuer(cert) ==
    LET issuer == cert.issuer
        issuerName == IF Truthy(issuer.CN) THEN issuer.CN
                      ELSE IF Truthy(issuer.O) THEN issuer.O
                      ELSE String(str_Unknown)
        isTrusted == \E k \in 1..Len(trustedCAs) : nameIncludes(issuerName, trustedCAs[k])
    IN  << LogResult("tls", "certificate-issuer", TRUE, 0) >>
        \o (IF StrictEquals(cert.issuer.CN, cert.subject.CN)
            THEN << LogVulnerability("tls", "high", "self-signed", 0) >>
            ELSE IF isTrusted
            THEN << LogInfo("tls", "recognized-ca") >>
            ELSE <<>>)

\* SSLChecker.wildcardMatch: certName.startsWith is not a function when
\* certName is an array, and the call throws a TypeError.
wildcardMatch(certName, hostname) ==
    IF certName.type # "string"
    THEN [value |-> FALSE, threw |-> TRUE]
    ELSE IF startsWith(certName.str, str_wildcard)
    THEN [value |-> endsWith(hostname, substring(certName.str, 2)), threw |-> FALSE]
    ELSE [value |-> FALSE, threw |-> FALSE]

\* SSLChecker.checkCertificateSubject
checkCertificateSubject(cert, hostname) ==
    LET subjectCN == cert.subject.CN
        shown == << LogResult("tls", "certificate-subject", TRUE, 0) >>
        match == wildcardMatch(subjectCN, hostname)
    IN  IF Truthy(subjectCN)
        THEN IF StrictEquals(subjectCN, String(hostname))
             THEN Returned(shown \o << LogInfo("tls", "certificate-matches-hostname") >>)
             ELSE IF match.threw
             THEN Threw(shown)
             ELSE IF match.value
             THEN Returned(shown \o << LogInfo("tls", "certificate-matches-hostname") >>)
             ELSE Returned(shown \o << LogVulnerability("tls", "high",
                                                        "certificate-cn-mismatch", 0) >>)
        ELSE Returned(<<>>)

\* SSLChecker.checkCipherInfo; session.cipher is whether getCipher() is truthy
checkCipherInfo(session) ==
    LET protocol == session.protocol
    IN  IF session.cipher
        THEN << LogResult("tls", "cipher-suite", TRUE, 0),
                LogInfo("tls", "protocol"),
                LogInfo("tls", "encryption") >>
             \o (IF protocol = "TLSv1" \/ protocol = "TLSv1.1"
                 THEN << LogVulnerability("tls", "high", "weak-tls-version", 0) >>
                 ELSE IF protocol = "TLSv1.2" \/ protocol = "TLSv1.3"
                 THEN << LogInfo("tls", "tls-version-secure") >>
                 ELSE <<>>)
        ELSE <<>>

\* The response callback of checkCertificate's https.request, up to resolve().
\* session: the peer certificate, the negotiated cipher and protocol, and the
\* time of the check.
checkCertificate_onResponse(session, hostname) ==
    LET cert == session.cert
        subject == checkCertificateSubject(cert, hostname)
        before == checkCertificateValidity(cert, session.now)
                  \o checkCertificateIssuer(cert)
                  \o subject.log
    IN  IF ~session.certEmpty
        THEN IF subject.threw
             THEN Threw(before)
             ELSE Returned(before \o checkCipherInfo(session))
        ELSE Returned(<< LogError("tls", "could-not-retrieve-certificate") >>)

\* checkHTTPSRedirect when axios.get fulfils: validateStatus let the status
\* through (200 <= status < 400), maxRedirects 0 left a 3xx unfollowed.
checkHTTPSRedirect_try(status, location) ==
    IF status >= 300 /\ status < 400
    THEN IF location # <<>> /\ startsWith(location, str_https)
         THEN << LogResult("tls", "redirect-present", TRUE, 0) >>
         ELSE << LogResult("tls", "redirect-incorrect", FALSE, 0),
                 LogVulnerability("tls", "high", "redirect-not-to-https", 0) >>
    ELSE <<>>

\* checkHTTPSRedirect when axios.get rejects, with error.response (a status
\* validateStatus refused) or without (no response at all).
checkHTTPSRedirect_catch(hasResponse, status, location) ==
    IF hasResponse /\ status >= 300 /\ status < 400
    THEN IF location # <<>> /\ startsWith(location, str_https)
         THEN << LogResult("tls", "redirect-present", TRUE, 0) >>
         ELSE <<>>
    ELSE << LogResult("tls", "redirect-not-configured", FALSE, 0),
            LogVulnerability("tls", "high", "no-redirect-to-https", 0) >>

\* validateStatus of checkHTTPSRedirect's request
redirectValidateStatus(status) == status >= 200 /\ status < 400

(***************************************************************************)
(* PortScanner (src/src/scanners/portScanner.js)                           *)
(***************************************************************************)
PortSpec(p, s, r) == [port |-> p, service |-> s, risk |-> r]

commonPorts ==
    << PortSpec(21, "FTP", "high"),
       PortSpec(22, "SSH", "medium"),
       PortSpec(23, "Telnet", "critical"),
       PortSpec(25, "SMTP", "medium"),
       PortSpec(80, "HTTP", "low"),
       PortSpec(443, "HTTPS", "low"),
       PortSpec(3306, "MySQL", "high"),
       PortSpec(5432, "PostgreSQL", "high"),
       PortSpec(6379, "Redis", "high"),
       PortSpec(27017, "MongoDB", "high"),
       PortSpec(3389, "RDP", "high"),
       PortSpec(8080, "HTTP-Alt", "low"),
       PortSpec(8443, "HTTPS-Alt", "low") >>

Idx == 1..Len(commonPorts)

\* resolve({ port, service, risk, open }) of checkPort's handlers
ProbeResult(i, open) ==
    [port |-> commonPorts[i].port, service |-> commonPorts[i].service,
     risk |-> commonPorts[i].risk, open |-> open]

\* The advice table of getPortAdvice: the ports that have an entry.
advice == {21, 22, 23, 25, 3306, 5432, 6379, 27017, 3389, 8080, 8443}

\* advice[port] || `Port ${port} (${service}) is open. Verify ...`
getPortAdvice(port, service) ==
    IF port \in advice THEN "advice" ELSE "verify-exposure"

\* array.filter(r => r.risk === risk)
FilterRisk(ports, risk) ==
    SelectSeq(ports, LAMBDA r : r.risk = risk)

\* ports.forEach(portInfo => { Logger.result(...); Logger.vulnerability(...) })
RECURSIVE EmitFindings(_, _)
EmitFindings(ports, severity) ==
    IF ports = <<>> THEN <<>>
    ELSE << LogResult("ports", "OPEN", FALSE, Head(ports).port),
            LogVulnerability("ports", severity,
                getPortAdvice(Head(ports).port, Head(ports).service),
                Head(ports).port) >>
         \o EmitFindings(Tail(ports), severity)

\* lowPorts.forEach(portInfo => Logger.result(..., true))
RECURSIVE EmitInformational(_)
EmitInformational(ports) ==
    IF ports = <<>> THEN <<>>
    ELSE << LogResult("ports", "OPEN", TRUE, Head(ports).port) >>
         \o EmitInformational(Tail(ports))

\* Mutant of displayResults: the medium group is "everything not critical or
\* high", so open low-tier ports get a medium finding too.
displayResults_lowAsMedium(res) ==
    LET openPorts == SelectSeq(res, LAMBDA r : r.open)
        criticalPorts == FilterRisk(openPorts, "critical")
        highPorts == FilterRisk(openPorts, "high")
        mediumPorts == SelectSeq(openPorts, LAMBDA r : r.risk \notin {"critical", "high"})
        lowPorts == FilterRisk(openPorts, "low")
    IN  IF Len(openPorts) = 0
        THEN << LogInfo("ports", "no-open-ports-good") >>
        ELSE << LogInfo("ports", "found-open-ports") >>
             \o EmitFindings(criticalPorts, "critical")
             \o EmitFindings(highPorts, "high")
             \o EmitFindings(mediumPorts, "medium")
             \o (IF Len(lowPorts) > 0
                 THEN << LogInfo("ports", "standard-web-ports") >>
                      \o EmitInformational(lowPorts)
                 ELSE <<>>)

\* PortScanner.displayResults: the Logger calls it makes, in order.
displayResults(res) ==
    LET openPorts == SelectSeq(res, LAMBDA r : r.open)
        criticalPorts == FilterRisk(openPorts, "critical")
        highPorts == FilterRisk(openPorts, "high")
        mediumPorts == FilterRisk(openPorts, "medium")
        lowPorts == FilterRisk(openPorts, "low")
    IN  IF Len(openPorts) = 0
        THEN << LogInfo("ports", "no-open-ports-good") >>
        ELSE << LogInfo("ports", "found-open-ports") >>
             \o EmitFindings(criticalPorts, "critical")
             \o EmitFindings(highPorts, "high")
             \o EmitFindings(mediumPorts, "medium")
             \o (IF Len(lowPorts) > 0
                 THEN << LogInfo("ports", "standard-web-ports") >>
                      \o EmitInformational(lowPorts)
                 ELSE <<>>)

\* promise.resolve(v): settles a pending promise, and is ignored by a settled one.
Resolve(p, v) == IF p = <<>> THEN <<v>> ELSE p

\* Mutant of PromiseAllStore: the value is pushed in completion order.
PromiseAllStore_push(vals, i, r) ==
    LET free == {k \in Idx : vals[k] = <<>>}
        first == CHOOSE k \in free : \A j \in free : k <= j
    IN  [vals EXCEPT ![first] = <<r>>]

\* Promise.all's bookkeeping when input promise i fulfils with r:
\* values[index] = r.
PromiseAllStore(vals, i, r) == [vals EXCEPT ![i] = <<r>>]

\* Mutant of PromiseAllReady: a race, the first settled probe ends the wait.
PromiseAllReady_race(vals) == \E i \in Idx : vals[i] # <<>>

\* Promise.all fulfils once every input promise has fulfilled (no probe rejects).
PromiseAllReady(vals) == \A i \in Idx : vals[i] # <<>>

\* The array Promise.all fulfils with: the values by input index.
RECURSIVE PromiseAllValues(_, _)
PromiseAllValues(vals, i) ==
    IF i > Len(commonPorts) THEN <<>>
    ELSE vals[i] \o PromiseAllValues(vals, i + 1)

\* Mutant of PortScanner_scan: runScanners does not await SSLChecker.scan.
PortScanner_scan_noAwait ==
    /\ pc \in {"tls_redirect_wait", "tls_cert_wait", "tls_done"}
    /\ pc' = "ports_wait"
    /\ started' = Append(started, "ports")
    /\ log' = log \o << LogSection("ports"), LogInfo("ports", "scanning"),
                        LogInfo("ports", "may-take-a-moment") >>
    /\ sock' = [i \in Idx |-> "connecting"]
    /\ connects' = [i \in Idx |-> connects[i] + 1]
    /\ promise' = [i \in Idx |-> <<>>]
    /\ values' = [i \in Idx |-> <<>>]
    /\ UNCHANGED <<attempts, completed, raised, sockEvents, results, tlsSocket,
                   targetVars>>

\* PortScanner.scan up to its await, which runs scanPorts and with it
\* checkPort for every catalog entry: one socket, one connect call each.
PortScanner_scan ==
    /\ pc = "tls_done"
    /\ pc' = "ports_wait"
    /\ started' = Append(started, "ports")
    /\ log' = log \o << LogSection("ports"), LogInfo("ports", "scanning"),
                        LogInfo("ports", "may-take-a-moment") >>
    /\ sock' = [i \in Idx |-> "connecting"]
    /\ connects' = [i \in Idx |-> connects[i] + 1]
    /\ promise' = [i \in Idx |-> <<>>]
    /\ values' = [i \in Idx |-> <<>>]
    /\ UNCHANGED <<attempts, completed, raised, sockEvents, results, tlsSocket,
                   targetVars>>

\* What the three handlers of checkPort share: socket.destroy(), resolve(...),
\* then Promise.all's reaction and, once it fulfils, scanPorts' return.
checkPort_settle(i, event, open) ==
    LET wasPending == promise[i] = <<>>
        vals == IF wasPending
                THEN PromiseAllStore(values, i, ProbeResult(i, open))
                ELSE values
    IN  /\ sock' = [sock EXCEPT ![i] = "destroyed"]
        /\ sockEvents' = [sockEvents EXCEPT ![i] = Append(@, event)]
        /\ promise' = [promise EXCEPT ![i] = Resolve(@, ProbeResult(i, open))]
        /\ values' = vals
        /\ IF pc = "ports_wait" /\ PromiseAllReady(vals)
           THEN /\ results' = << PromiseAllValues(vals, 1) >>
                /\ pc' = "ports_joined"
           ELSE UNCHANGED <<results, pc>>
        /\ UNCHANGED <<log, attempts, connects, started, completed, raised,
                       tlsSocket, targetVars>>

\* socket.on('connect', ...): the target accepted the connection.
checkPort_onConnect(i) ==
    /\ sock[i] = "connecting"
    /\ target[i] = "accept"
    /\ checkPort_settle(i, "connect", TRUE)

\* Mutant of checkPort_onTimeout: a timed-out probe resolves open.
checkPort_onTimeout_open(i) ==
    /\ sock[i] = "connecting"
    /\ target[i] = "drop"
    /\ checkPort_settle(i, "timeout", TRUE)

\* socket.on('timeout', ...): nothing answered within the 2 s of setTimeout.
checkPort_onTimeout(i) ==
    /\ sock[i] = "connecting"
    /\ target[i] = "drop"
    /\ checkPort_settle(i, "timeout", FALSE)

\* socket.on('error', ...): refused, unreachable, or the name did not resolve.
checkPort_onError(i) ==
    /\ sock[i] = "connecting"
    /\ target[i] = "refuse"
    /\ checkPort_settle(i, "error", FALSE)

\* PortScanner.scan after its await: this.displayResults(results), return.
PortScanner_display ==
    /\ pc = "ports_joined"
    /\ pc' = "ports_done"
    /\ log' = log \o displayResults(results[1])
    /\ completed' = completed \cup {"ports"}
    /\ UNCHANGED <<attempts, started, raised, portVars, tlsSocket, targetVars>>

\* runScanners after the last await: the duration report.
runScanners_finish ==
    /\ pc = "ports_done"
    /\ pc' = "done"
    /\ log' = Append(log, LogInfo("orchestrator", "scan-completed"))
    /\ UNCHANGED <<attempts, started, completed, raised, portVars, tlsSocket,
                   targetVars>>

(***************************************************************************)
(* The port prober alone: PortScanner.scan called on a target that accepts *)
(* connections on some catalog ports and refuses or drops the others.      *)
(***************************************************************************)
Behaviour == {"accept", "refuse", "drop"}

\* The catalog index of port 80.
HttpIdx == CHOOSE i \in Idx : commonPorts[i].port = 80
\* The catalog index of port 443.
HttpsIdx == CHOOSE i \in Idx : commonPorts[i].port = 443

Varied == {i \in Idx : HttpIdx <= i /\ i < HttpIdx + MaxVaried}

PortTargets ==
    {[i \in Idx |-> IF i \in Varied THEN f[i] ELSE "refuse"] :
        f \in [Varied -> Behaviour]}

NoPortState ==
    /\ connects = [i \in Idx |-> 0]
    /\ sock = [i \in Idx |-> "none"]
    /\ sockEvents = [i \in Idx |-> <<>>]
    /\ promise = [i \in Idx |-> <<>>]
    /\ values = [i \in Idx |-> <<>>]
    /\ results = <<>>

NoRequests == [fingerprint |-> 0, headers |-> 0, tls |-> 0, redirect |-> 0]


(***************************************************************************)
(* The target of a whole scan and what it may answer.                      *)
(***************************************************************************)
\* parsedUrl.hostname
ScanHostname == << "a", ".", "i", "o" >>

\* the port of the URL: the scheme's default
UrlPort == IF scheme = "https" THEN 443 ELSE 80

\* The target completes connections to this port.
Accepts(port) ==
    \E i \in Idx : commonPorts[i].port = port /\ target[i] = "accept"

\* nothing answers: every port refuses, or every port drops
AllRefuse == [i \in Idx |-> "refuse"]
AllDrop == [i \in Idx |-> "drop"]
\* a web host behind a filter: 80 and 443 accept, the rest is dropped
WebHost == [i \in Idx |-> IF i \in {HttpIdx, HttpsIdx} THEN "accept" ELSE "drop"]

ScanTargets == {AllRefuse, AllDrop, WebHost}

\* Server: nginx/1.18.0, Strict-Transport-Security: max-age=31536000,
\* X-Frame-Options: DENY, and no other header the analyzers read
ExampleHeaders ==
    [n \in HeaderNames |->
        IF n = "server"
        THEN << "n", "g", "i", "n", "x", "/", "1", ".", "1", "8", ".", "0" >>
        ELSE IF n = "strict-transport-security"
        THEN str_maxage \o << "3", "1", "5", "3", "6", "0", "0", "0" >>
        ELSE IF n = "x-frame-options"
        THEN str_DENY
        ELSE <<>>]

ScanHeaders == {ExampleHeaders}

\* status codes of a response to the analyzers' GET; validateStatus: () => true
ScanStatuses == {200, 404, 500}

Name(cn, o) == [CN |-> cn, O |-> o]

Certificate(from, to, issuer, subject) ==
    [valid_from |-> from, valid_to |-> to, issuer |-> issuer, subject |-> subject]

Session(certEmpty, cert, now, protocol) ==
    [certEmpty |-> certEmpty, cert |-> cert, now |-> now, cipher |-> TRUE,
     protocol |-> protocol]

str_CA == << "D", "i", "g", "i", "C", "e", "r", "t", " ", "C", "A" >>
str_other == << "b", ".", "i", "o" >>

\* a certificate for the hostname, issued by a recognized CA, valid for
\* another 90 days
GoodSession ==
    Session(FALSE,
            Certificate(0, 100 * HoursPerDay,
                        Name(String(str_CA), Undefined),
                        Name(String(ScanHostname), Undefined)),
            10 * HoursPerDay, "TLSv1.3")

\* getPeerCertificate() returned {}
EmptyCertSession == [GoodSession EXCEPT !.certEmpty = TRUE]

\* a certificate whose subject carries two CN attributes
TwoCNSession ==
    [GoodSession EXCEPT
        !.cert.subject.CN = Array(<< ScanHostname, str_other >>)]

ScanSessions == {GoodSession, EmptyCertSession, TwoCNSession}

\* In a whole scan the handlers draw what the target answers themselves.
NoInput ==
    [argv |-> <<>>, hostname |-> ScanHostname, status |-> 200,
     headers |-> ExampleHeaders, session |-> GoodSession]

\* what the plain-HTTP request of checkHTTPSRedirect may be answered with
RedirectStatuses == {200, 301, 404}
RedirectLocations ==
    { <<>>, str_https \o ScanHostname, << "/", "l", "o", "g", "i", "n" >> }

(***************************************************************************)
(* SimpleWebGuard.runScanners (src/src/index.js, lines 76-100) and the     *)
(* scan() of each analyzer.  No scan() can reject: each wraps its body in  *)
(* try/catch, so runScanners' own catch (line 92) has nothing to catch.    *)
(***************************************************************************)
\* runScanners up to the first await: ServerFingerprint.scan issues its GET.
ServerFingerprint_scan ==
    /\ pc = "init"
    /\ pc' = "fp_wait"
    /\ started' = Append(started, "fingerprint")
    /\ log' = Append(log, LogSection("fingerprint"))
    /\ attempts' = [attempts EXCEPT !.fingerprint = @ + 1]
    /\ UNCHANGED <<completed, raised, portVars, tlsSocket, targetVars>>

\* ServerFingerprint.scan, axios.get fulfilled: the three checks.
\* The response has the given status and headers; validateStatus: () => true
\* fulfils the promise for every status.
ServerFingerprint_respond(status, headers) ==
    /\ pc = "fp_wait"
    /\ Accepts(UrlPort)
    /\ log' = log \o checkServerHeader(headers) \o checkPoweredBy(headers)
                  \o checkOtherHeaders(headers)
    /\ pc' = "fp_done"
    /\ completed' = completed \cup {"fingerprint"}
    /\ UNCHANGED <<attempts, started, raised, portVars, tlsSocket, targetVars>>

ServerFingerprint_onResponse ==
    \E status \in ScanStatuses, headers \in ScanHeaders :
        ServerFingerprint_respond(status, headers)

\* Mutant of ServerFingerprint_onFailure: the GET is issued again.
ServerFingerprint_onFailure_retry ==
    /\ pc = "fp_wait"
    /\ attempts' = [attempts EXCEPT !.fingerprint = @ + 1]
    /\ raised' = raised \cup {"fingerprint"}
    /\ UNCHANGED <<pc, log, started, completed, portVars, tlsSocket, targetVars>>

\* ServerFingerprint.scan, axios.get rejected (refused, DNS, 10 s timeout).
ServerFingerprint_onFailure ==
    /\ pc = "fp_wait"
    /\ pc' = "fp_done"
    /\ log' = Append(log, LogError("fingerprint", "failed-to-fetch-server-information"))
    /\ raised' = raised \cup {"fingerprint"}
    /\ completed' = completed \cup {"fingerprint"}
    /\ UNCHANGED <<attempts, started, portVars, tlsSocket, targetVars>>

\* runScanners after its first await: HeaderScanner.scan issues its GET.
HeaderScanner_scan ==
    /\ pc = "fp_done"
    /\ pc' = "hd_wait"
    /\ started' = Append(started, "headers")
    /\ log' = Append(log, LogSection("headers"))
    /\ attempts' = [attempts EXCEPT !.headers = @ + 1]
    /\ UNCHANGED <<completed, raised, portVars, tlsSocket, targetVars>>

\* HeaderScanner.scan, axios.get fulfilled: the seven checks.
\* Mutant of HeaderScanner_respond: the rules run for a status below 400 only.
HeaderScanner_respond_okOnly(status, headers) ==
    /\ pc = "hd_wait"
    /\ Accepts(UrlPort)
    /\ log' = IF status < 400
              THEN log \o checkCSP(headers) \o checkHSTS(headers)
                       \o checkXFrameOptions(headers)
                       \o checkXContentTypeOptions(headers)
                       \o checkXSSProtection(headers) \o checkReferrerPolicy(headers)
                       \o checkPermissionsPolicy(headers)
              ELSE log
    /\ pc' = "hd_done"
    /\ completed' = completed \cup {"headers"}
    /\ UNCHANGED <<attempts, started, raised, portVars, tlsSocket, targetVars>>

\* The response has the given status and headers; validateStatus: () => true
\* fulfils the promise for every status.
HeaderScanner_respond(status, headers) ==
    /\ pc = "hd_wait"
    /\ Accepts(UrlPort)
    /\ log' = log \o checkCSP(headers) \o checkHSTS(headers)
                  \o checkXFrameOptions(headers)
                  \o checkXContentTypeOptions(headers)
                  \o checkXSSProtection(headers) \o checkReferrerPolicy(headers)
                  \o checkPermissionsPolicy(headers)
    /\ pc' = "hd_done"
    /\ completed' = completed \cup {"headers"}
    /\ UNCHANGED <<attempts, started, raised, portVars, tlsSocket, targetVars>>

HeaderScanner_onResponse ==
    \E status \in ScanStatuses, headers \in ScanHeaders :
        HeaderScanner_respond(status, headers)

\* Mutant of HeaderScanner_onFailure: the rejection is swallowed.
HeaderScanner_onFailure_silent ==
    /\ pc = "hd_wait"
    /\ pc' = "hd_done"
    /\ raised' = raised \cup {"headers"}
    /\ completed' = completed \cup {"headers"}
    /\ UNCHANGED <<log, attempts, started, portVars, tlsSocket, targetVars>>

\* HeaderScanner.scan, axios.get rejected.
HeaderScanner_onFailure ==
    /\ pc = "hd_wait"
    /\ pc' = "hd_done"
    /\ log' = Append(log, LogError("headers", "failed-to-fetch-headers"))
    /\ raised' = raised \cup {"headers"}
    /\ completed' = completed \cup {"headers"}
    /\ UNCHANGED <<attempts, started, portVars, tlsSocket, targetVars>>

\* runScanners after its second await: SSLChecker.scan up to its await, the
\* plain-HTTP request of checkHTTPSRedirect or the https.request of
\* checkCertificate.
SSLChecker_scan ==
    /\ pc = "hd_done"
    /\ started' = Append(started, "tls")
    /\ \/ /\ scheme # "https"
          /\ log' = log \o << LogSection("tls"),
                              LogResult("tls", "https-not-used", FALSE, 0),
                              LogVulnerability("tls", "critical", "unencrypted", 0) >>
          /\ attempts' = [attempts EXCEPT !.redirect = @ + 1]
          /\ pc' = "tls_redirect_wait"
          /\ UNCHANGED tlsSocket
       \/ /\ scheme = "https"
          /\ log' = log \o << LogSection("tls"),
                              LogResult("tls", "https-enabled", TRUE, 0) >>
          /\ attempts' = [attempts EXCEPT !.tls = @ + 1]
          /\ tlsSocket' = "connecting"
          /\ pc' = "tls_cert_wait"
    /\ UNCHANGED <<completed, raised, portVars, targetVars>>

\* checkHTTPSRedirect, axios.get fulfilled.
checkHTTPSRedirect_onFulfilled ==
    /\ pc = "tls_redirect_wait"
    /\ Accepts(80)
    /\ \E status \in RedirectStatuses, location \in RedirectLocations :
          /\ redirectValidateStatus(status)
          /\ log' = log \o checkHTTPSRedirect_try(status, location)
    /\ pc' = "tls_done"
    /\ completed' = completed \cup {"tls"}
    /\ UNCHANGED <<attempts, started, raised, portVars, tlsSocket, targetVars>>

\* checkHTTPSRedirect, axios.get rejected: with the response whose status
\* validateStatus refused, or with no response (refused, DNS, 5 s timeout).
checkHTTPSRedirect_onRejected ==
    /\ pc = "tls_redirect_wait"
    /\ \/ /\ Accepts(80)
          /\ \E status \in RedirectStatuses, location \in RedirectLocations :
                /\ ~redirectValidateStatus(status)
                /\ log' = log \o checkHTTPSRedirect_catch(TRUE, status, location)
          /\ UNCHANGED raised
       \/ /\ log' = log \o checkHTTPSRedirect_catch(FALSE, 0, <<>>)
          /\ raised' = raised \cup {"tls"}
    /\ pc' = "tls_done"
    /\ completed' = completed \cup {"tls"}
    /\ UNCHANGED <<attempts, started, portVars, tlsSocket, targetVars>>

\* checkCertificate, the response callback of https.request.  An exception
\* it throws is thrown inside an event handler: no try block of the program
\* is on the stack, no 'uncaughtException' handler is installed, and the
\* process ends.
checkCertificate_respond(session, hostname) ==
    /\ pc = "tls_cert_wait"
    /\ tlsSocket = "connecting"
    /\ Accepts(443)
    /\ LET out == checkCertificate_onResponse(session, hostname)
       IN  /\ log' = log \o out.log
           /\ IF out.threw
              THEN /\ pc' = "crashed"
                   /\ UNCHANGED <<completed, raised>>
              ELSE /\ pc' = "tls_done"
                   /\ completed' = completed \cup {"tls"}
                   /\ raised' = IF session.certEmpty
                                THEN raised \cup {"tls"} ELSE raised
    /\ tlsSocket' = "open"
    /\ UNCHANGED <<attempts, started, portVars, targetVars>>

checkCertificate_onResponseEvent ==
    \E session \in ScanSessions : checkCertificate_respond(session, ScanHostname)

\* checkCertificate, req.on('error', ...): refused, reset, handshake failure.
checkCertificate_onError ==
    /\ pc = "tls_cert_wait"
    /\ tlsSocket = "connecting"
    /\ pc' = "tls_done"
    /\ log' = Append(log, LogError("tls", "ssl-tls-connection-failed"))
    /\ raised' = raised \cup {"tls"}
    /\ completed' = completed \cup {"tls"}
    /\ tlsSocket' = "closed"
    /\ UNCHANGED <<attempts, started, portVars, targetVars>>

\* The target accepts the TCP connection and then sends nothing.  The request
\* has no timeout (no options.timeout, no req.setTimeout): no event follows.
Target_stallsTls ==
    /\ pc = "tls_cert_wait"
    /\ tlsSocket = "connecting"
    /\ Accepts(443)
    /\ tlsSocket' = "stalled"
    /\ UNCHANGED <<pc, log, attempts, started, completed, raised, portVars,
                   targetVars>>

Init ==
    /\ pc = "init"
    /\ scheme \in {"http", "https"}
    /\ target \in ScanTargets
    /\ log = <<>>
    /\ attempts = NoRequests
    /\ started = <<>>
    /\ completed = {}
    /\ raised = {}
    /\ tlsSocket = "none"
    /\ NoPortState
    /\ input = NoInput

Next ==
    \/ ServerFingerprint_scan
    \/ ServerFingerprint_onResponse
    \/ ServerFingerprint_onFailure
    \/ HeaderScanner_scan
    \/ HeaderScanner_onResponse
    \/ HeaderScanner_onFailure
    \/ SSLChecker_scan
    \/ checkHTTPSRedirect_onFulfilled
    \/ checkHTTPSRedirect_onRejected
    \/ checkCertificate_onResponseEvent
    \/ checkCertificate_onError
    \/ Target_stallsTls
    \/ PortScanner_scan
    \/ \E i \in Idx : checkPort_onConnect(i)
    \/ \E i \in Idx : checkPort_onTimeout(i)
    \/ \E i \in Idx : checkPort_onError(i)
    \/ PortScanner_display
    \/ runScanners_finish

Spec == Init /\ [][Next]_vars

(***************************************************************************)
(* The port prober alone: PortScanner.scan from its call in runScanners,   *)
(* for every answer of the varied ports.                                   *)
(***************************************************************************)
PortInit ==
    /\ pc = "tls_done"
    /\ scheme = "https"
    /\ target \in PortTargets
    /\ log = <<>>
    /\ attempts = NoRequests
    /\ started = <<>>
    /\ completed = {}
    /\ raised = {}
    /\ tlsSocket = "none"
    /\ NoPortState
    /\ input = NoInput

PortNext ==
    \/ PortScanner_scan
    \/ \E i \in Idx : checkPort_onConnect(i)
    \/ \E i \in Idx : checkPort_onTimeout(i)
    \/ \E i \in Idx : checkPort_onError(i)
    \/ PortScanner_display

PortProber == PortInit /\ [][PortNext]_vars

(***************************************************************************)
(* SimpleWebGuard.run (src/src/index.js, lines 19-42) and                  *)
(* Validator.validateURL (src/src/utils/validator.js, lines 13-30): the    *)
(* whole program, from the URL it is given to the end of the process.      *)
(***************************************************************************)
str_http == << "h", "t", "t", "p", ":", "/", "/" >>

\* isFQDN of the validator package with its defaults: labels of letters,
\* digits and hyphens separated by single dots, at least two of them, the
\* last one of two or more letters.
isFQDN(host) ==
    LET dots == {k \in 1..Len(host) : host[k] = "."}
        last == CHOOSE k \in dots : \A j \in dots : j <= k
        IsLetter(c) == \E j \in 1..Len(lowerLetters) :
                          c = lowerLetters[j] \/ c = upperLetters[j]
    IN  /\ dots # {}
        /\ 1 \notin dots /\ Len(host) \notin dots
        /\ \A k \in dots : k + 1 \notin dots
        /\ \A k \in 1..Len(host) :
              IsLetter(host[k]) \/ IsDigit(host[k]) \/ host[k] = "-" \/ host[k] = "."
        /\ Len(host) - last >= 2
        /\ \A k \in (last + 1)..Len(host) : IsLetter(host[k])

\* validator.isURL(url, {protocols: ['http', 'https'], require_protocol: true,
\* require_valid_protocol: true}) for a URL without port, path, query and
\* credentials: a protocol of the list, then a host name.
isURL(url) ==
    \E protocol \in {str_http, str_https} :
        /\ Len(protocol) <= Len(url)
        /\ toLowerCase(SubSeq(url, 1, Len(protocol))) = protocol
        /\ isFQDN(substring(url, Len(protocol)))

\* Validator.validateURL: the normalized URL, or null
validateURL(url) ==
    LET normalized == IF ~startsWith(url, str_http) /\ ~startsWith(url, str_https)
                      THEN str_https \o url
                      ELSE url
    IN  IF ~isURL(normalized)
        THEN [isNull |-> TRUE, url |-> <<>>,
              log |-> << LogError("orchestrator", "invalid-url-format") >>]
        ELSE [isNull |-> FALSE, url |-> normalized, log |-> <<>>]

\* new URL(url).protocol of a validated URL, without the colon
protocolOf(url) == IF startsWith(url, str_https) THEN "https" ELSE "http"

\* Mutant of run_validate: the scan goes on after a failed validation.
run_validate_noExit ==
    /\ pc = "start"
    /\ LET validatedUrl == validateURL(input.argv)
       IN  /\ pc' = "init"
           /\ log' = log \o validatedUrl.log \o << LogInfo("orchestrator", "target") >>
           /\ scheme' = protocolOf(validatedUrl.url)
    /\ UNCHANGED <<attempts, started, completed, raised, portVars, tlsSocket,
                   target, input>>

\* run up to its await of runScanners: input.argv is process.argv[2], or the
\* trimmed answer to the prompt.  process.exit(1) ends the process at once.
run_validate ==
    /\ pc = "start"
    /\ LET validatedUrl == validateURL(input.argv)
       IN  IF validatedUrl.isNull
           THEN /\ pc' = "exit_1"
                /\ log' = log \o validatedUrl.log
                /\ UNCHANGED scheme
           ELSE /\ pc' = "init"
                /\ log' = log \o validatedUrl.log
                             \o << LogInfo("orchestrator", "target") >>
                /\ scheme' = protocolOf(validatedUrl.url)
    /\ UNCHANGED <<attempts, started, completed, raised, portVars, tlsSocket,
                   target, input>>

\* run after its await: displaySummary; run()'s promise fulfils, nothing is
\* left on the event loop (every socket was destroyed, every request has
\* settled) and the process ends with exit code 0.
run_finish ==
    /\ pc = "done"
    /\ pc' = "exit_0"
    /\ log' = Append(log, LogInfo("orchestrator", "scan-complete-summary"))
    /\ UNCHANGED <<attempts, started, completed, raised, portVars, tlsSocket,
                   targetVars>>

\* what may be typed as the URL: the two schemes, no scheme, nothing, no
\* top-level domain, another scheme, the scheme in capitals, no host, a space
RunUrls ==
    {
      << "h", "t", "t", "p", "s", ":", "/", "/", "a", ".", "i", "o" >>,
      << "h", "t", "t", "p", ":", "/", "/", "a", ".", "i", "o" >>,
      << "a", ".", "i", "o" >>,
      <<>>,
      << "a" >>,
      << "f", "t", "p", ":", "/", "/", "a", ".", "i", "o" >>,
      << "H", "T", "T", "P", ":", "/", "/", "a", ".", "i", "o" >>,
      << "h", "t", "t", "p", ":", "/", "/" >>,
      << "a", " ", "i", "o" >> }

\* a web host: 80 and 443 accept, 21 refuses, the other ports are dropped
FilteredHost ==
    [i \in Idx |-> IF i \in {HttpIdx, HttpsIdx} THEN "accept"
                   ELSE IF i = 1 THEN "refuse" ELSE "drop"]

ProgramInit ==
    /\ pc = "start"
    /\ scheme = "unset"
    /\ target = FilteredHost
    /\ log = <<>>
    /\ attempts = NoRequests
    /\ started = <<>>
    /\ completed = {}
    /\ raised = {}
    /\ tlsSocket = "none"
    /\ NoPortState
    /\ input \in { [NoInput EXCEPT !.argv = url] : url \in RunUrls }

ProgramNext ==
    \/ run_validate
    \/ Next
    \/ run_finish

Program == ProgramInit /\ [][ProgramNext]_vars

(***************************************************************************)
(* Result classification alone: PortScanner.scan at the moment scanPorts   *)
(* has returned, for every set of catalog ports that accepted.             *)
(***************************************************************************)
ClassifierInit ==
    /\ pc = "ports_joined"
    /\ scheme = "https"
    /\ target \in [Idx -> {"accept", "refuse"}]
    /\ log = << LogSection("ports"), LogInfo("ports", "scanning"),
                LogInfo("ports", "may-take-a-moment") >>
    /\ attempts = NoRequests
    /\ started = << "ports" >>
    /\ completed = {}
    /\ raised = {}
    /\ tlsSocket = "none"
    /\ connects = [i \in Idx |-> 1]
    /\ sock = [i \in Idx |-> "destroyed"]
    /\ sockEvents = [i \in Idx |->
                        IF target[i] = "accept" THEN << "connect" >> ELSE << "error" >>]
    /\ promise = [i \in Idx |-> << ProbeResult(i, target[i] = "accept") >>]
    /\ values = promise
    /\ results = << PromiseAllValues(values, 1) >>
    /\ input = NoInput

ClassifierNext == PortScanner_display

Classifier == ClassifierInit /\ [][ClassifierNext]_vars

(***************************************************************************)
(* The seven header rules alone: HeaderScanner.scan at the moment its GET  *)
(* is answered, for every status and every combination of header values    *)
(* below.                                                                  *)
(***************************************************************************)
\* Strict-Transport-Security values: absent, max-age below, just below, at
\* and above six months, max-age before and after another directive, no
\* max-age, the directive name in another letter case, and no digits.
HstsValues ==
    {
      <<>>,
      << "m", "a", "x", "-", "a", "g", "e", "=", "0" >>,
      << "m", "a", "x", "-", "a", "g", "e", "=", "1", "5", "5", "5", "1", "9", "9", "9" >>,
      << "m", "a", "x", "-", "a", "g", "e", "=", "1", "5", "5", "5", "2", "0", "0", "0" >>,
      << "m", "a", "x", "-", "a", "g", "e", "=", "3", "1", "5", "3", "6", "0", "0", "0" >>,
      << "m", "a", "x", "-", "a", "g", "e", "=", "3", "0", "0", ";", " ", "p", "r", "e", "l", "o", "a", "d" >>,
      << "p", "r", "e", "l", "o", "a", "d", ";", " ", "m", "a", "x", "-", "a", "g", "e", "=", "3", "1", "5", "3", "6", "0", "0", "0" >>,
      << "p", "r", "e", "l", "o", "a", "d" >>,
      << "M", "a", "x", "-", "A", "g", "e", "=", "0" >>,
      << "m", "a", "x", "-", "a", "g", "e", "=" >> }

\* X-Frame-Options values: absent, the two secure values in three letter
\* cases, and two other values.
XfoValues ==
    {
      <<>>,
      << "D", "E", "N", "Y" >>,
      << "d", "e", "n", "y" >>,
      << "D", "e", "n", "y" >>,
      << "S", "A", "M", "E", "O", "R", "I", "G", "I", "N" >>,
      << "s", "a", "m", "e", "o", "r", "i", "g", "i", "n" >>,
      << "S", "a", "m", "e", "O", "r", "i", "g", "i", "n" >>,
      << "A", "L", "L", "O", "W", "A", "L", "L" >>,
      << "D", "E", "N", "Y", "A", "L", "L" >> }

XctoValues ==
    {
      <<>>,
      << "n", "o", "s", "n", "i", "f", "f" >>,
      << "N", "o", "S", "n", "i", "f", "f" >>,
      << "s", "n", "i", "f", "f" >> }

str_present == << "x" >>
Presence == { <<>>, str_present }

RuleHeaders ==
    { [n \in HeaderNames |->
         IF n = "content-security-policy" THEN csp
         ELSE IF n = "strict-transport-security" THEN hsts
         ELSE IF n = "x-frame-options" THEN xfo
         ELSE IF n = "x-content-type-options" THEN xcto
         ELSE IF n = "x-xss-protection" THEN xss
         ELSE IF n = "referrer-policy" THEN rp
         ELSE IF n = "permissions-policy" THEN pp
         ELSE IF n = "feature-policy" THEN fp
         ELSE <<>>] :
      csp \in Presence, hsts \in HstsValues, xfo \in XfoValues, xcto \in XctoValues,
      xss \in Presence, rp \in Presence, pp \in Presence, fp \in Presence }

HeaderRulesInit ==
    /\ pc = "hd_wait"
    /\ scheme = "https"
    /\ target = WebHost
    /\ log = << LogSection("headers") >>
    /\ attempts = [NoRequests EXCEPT !.headers = 1]
    /\ started = << "headers" >>
    /\ completed = {}
    /\ raised = {}
    /\ tlsSocket = "none"
    /\ NoPortState
    /\ input \in { [NoInput EXCEPT !.status = st, !.headers = h] :
                     st \in ScanStatuses, h \in RuleHeaders }

HeaderRulesNext == HeaderScanner_respond(input.status, input.headers)

HeaderRules == HeaderRulesInit /\ [][HeaderRulesNext]_vars

(***************************************************************************)
(* The certificate checks alone: the response callback of checkCertificate *)
(* for every certificate, time of the check and hostname below.  Times are *)
(* whole hours.                                                            *)
(***************************************************************************)
\* the time of the check: new Date()
CheckTime == 100 * HoursPerDay

\* valid_from: 100 days ago, this very hour, in one hour
ValidFromValues == {CheckTime - 100 * HoursPerDay, CheckTime, CheckTime + 1}

\* valid_to: an hour ago, this very hour, in an hour, in 1 day, one hour
\* short of 30 days, 30 days to the hour, an hour more, 31 days, 100 days
ValidToValues ==
    {CheckTime - 1, CheckTime, CheckTime + 1, CheckTime + HoursPerDay,
     CheckTime + 30 * HoursPerDay - 1, CheckTime + 30 * HoursPerDay,
     CheckTime + 30 * HoursPerDay + 1, CheckTime + 31 * HoursPerDay,
     CheckTime + 100 * HoursPerDay}

str_wild_a_io == << "*", ".", "a", ".", "i", "o" >>
str_wild_io == << "*", ".", "i", "o" >>
str_w_a_io == << "w", ".", "a", ".", "i", "o" >>
str_ba_io == << "b", "a", ".", "i", "o" >>

\* subject CN: the hostname, three wildcards, another name, none, two values
SubjectCNValues ==
    { String(ScanHostname), String(str_wild_a_io), String(str_wild_io),
      String(str_other), Undefined,
      Array(<< ScanHostname, str_other >>) }

\* a.io, a name below it, and a name that only ends in the same letters
RuleHostnames == { ScanHostname, str_w_a_io, str_ba_io }

\* issuer CN: a CA's, none, or the subject's own CN (self-signed)
IssuerCNValues(subjectCN) == { String(str_CA), Undefined, subjectCN }

RuleSessions ==
    { Session(FALSE,
              Certificate(from, to, Name(issuerCN, Undefined), Name(subjectCN, Undefined)),
              CheckTime, "TLSv1.3") :
        from \in ValidFromValues, to \in ValidToValues,
        subjectCN \in SubjectCNValues,
        issuerCN \in UNION { IssuerCNValues(cn) : cn \in SubjectCNValues } }

CertRulesInit ==
    /\ pc = "tls_cert_wait"
    /\ scheme = "https"
    /\ target = WebHost
    /\ log = << LogSection("tls"), LogResult("tls", "https-enabled", TRUE, 0) >>
    /\ attempts = [NoRequests EXCEPT !.tls = 1]
    /\ started = << "tls" >>
    /\ completed = {}
    /\ raised = {}
    /\ tlsSocket = "connecting"
    /\ NoPortState
    /\ input \in { [NoInput EXCEPT !.session = se, !.hostname = h] :
                     se \in { x \in RuleSessions : x.cert.valid_from <= x.cert.valid_to },
                     h \in RuleHostnames }

CertRulesNext == checkCertificate_respond(input.session, input.hostname)

CertRules == CertRulesInit /\ [][CertRulesNext]_vars

(***************************************************************************)
(* The Server header check alone: ServerFingerprint.scan at the moment its *)
(* GET is answered, for every status and every header value below.        *)
(***************************************************************************)
\* Server values: absent, families with and without a version, in another
\* letter case, two families in one value, no family, and values with digits
\* and dots that are no version.
ServerValues ==
    {
      <<>>,
      << "n", "g", "i", "n", "x", "/", "1", ".", "1", "8", ".", "0" >>,
      << "n", "g", "i", "n", "x" >>,
      << "N", "G", "I", "N", "X" >>,
      << "A", "p", "a", "c", "h", "e", "/", "2", ".", "4" >>,
      << "M", "i", "c", "r", "o", "s", "o", "f", "t", "-", "I", "I", "S", "/", "1", "0", ".", "0" >>,
      << "c", "l", "o", "u", "d", "f", "l", "a", "r", "e" >>,
      << "c", "l", "o", "u", "d", "f", "l", "a", "r", "e", "-", "n", "g", "i", "n", "x" >>,
      << "l", "i", "g", "h", "t", "t", "p", "d", "/", "1", ".", "4" >>,
      << "C", "a", "d", "d", "y" >>,
      << "g", "w", "s" >>,
      << "v", "1", "." >>,
      << "1", ".", ".", "2" >>,
      << "x", " ", "1", "0", ".", "2", "5" >> }

PoweredByValues ==
    { <<>>, << "P", "H", "P", "/", "8", ".", "1" >>, << "E", "x", "p", "r", "e", "s", "s" >> }

FingerprintHeaders ==
    { [n \in HeaderNames |->
         IF n = "server" THEN server
         ELSE IF n = "x-powered-by" THEN poweredBy
         ELSE IF n = "via" THEN via
         ELSE <<>>] :
      server \in ServerValues, poweredBy \in PoweredByValues, via \in Presence }

FingerprintRulesInit ==
    /\ pc = "fp_wait"
    /\ scheme = "https"
    /\ target = WebHost
    /\ log = << LogSection("fingerprint") >>
    /\ attempts = [NoRequests EXCEPT !.fingerprint = 1]
    /\ started = << "fingerprint" >>
    /\ completed = {}
    /\ raised = {}
    /\ tlsSocket = "none"
    /\ NoPortState
    /\ input \in { [NoInput EXCEPT !.status = st, !.headers = h] :
                     st \in ScanStatuses, h \in FingerprintHeaders }

FingerprintRulesNext == ServerFingerprint_respond(input.status, input.headers)

FingerprintRules == FingerprintRulesInit /\ [][FingerprintRulesNext]_vars

(***************************************************************************)
(* What the log holds.                                                     *)
(***************************************************************************)
ByAnalyzer(an) == SelectSeq(log, LAMBDA e : e.an = an)

Errors(an) == Len(SelectSeq(log, LAMBDA e : e.an = an /\ e.fn = "error"))

Findings(an) == SelectSeq(log, LAMBDA e : e.an = an /\ e.fn = "vulnerability")

FindingsOf(an, severity) ==
    Len(SelectSeq(log, LAMBDA e :
            e.an = an /\ e.fn = "vulnerability" /\ e.sev = severity))

Logged(an, fn, msg) ==
    Len(SelectSeq(log, LAMBDA e : e.an = an /\ e.fn = fn /\ e.msg = msg))

AllSettled == \A i \in Idx : promise[i] # <<>> /\ sock[i] = "destroyed"

OpenIdx == {i \in Idx : promise[i] # <<>> /\ promise[i][1].open}

(***************************************************************************)
(* C2.  Classification never starts while a probe is unsettled: whenever   *)
(* scanPorts has returned, and so whenever displayResults has run, each of *)
(* the 13 probes has settled and the array handed over has 13 entries.     *)
(***************************************************************************)
C2_JoinBeforeClassify ==
    (results # <<>> \/ pc \in {"ports_joined", "ports_done", "done"})
        => /\ AllSettled
           /\ results # <<>>
           /\ Len(results[1]) = Len(commonPorts)

\* displayResults has run after probes ended by connect and by timeout.
C2_Witness ==
    /\ pc = "ports_done"
    /\ \E i, j \in Idx : sockEvents[i] = << "connect" >> /\ sockEvents[j] = << "timeout" >>

(***************************************************************************)
(* C3.  The result set and the findings depend on the target alone, not on *)
(* the order in which the probes complete: at every moment slot i of the   *)
(* aggregate holds nothing or the result of catalog entry i, the array     *)
(* handed to displayResults is the catalog in catalog order with open set  *)
(* to whether the port accepted, and the port prober's output is what      *)
(* displayResults makes of that array.                                     *)
(***************************************************************************)
ExpectedResults == [i \in Idx |-> ProbeResult(i, target[i] = "accept")]

PortPreamble ==
    << LogSection("ports"), LogInfo("ports", "scanning"),
       LogInfo("ports", "may-take-a-moment") >>

C3_OrderIndependent ==
    /\ \A i \in Idx : values[i] # <<>> => values[i] = << ExpectedResults[i] >>
    /\ results # <<>> =>
          /\ Len(results[1]) = Len(commonPorts)
          /\ \A i \in Idx : results[1][i] = ExpectedResults[i]
    /\ pc = "ports_done" =>
          ByAnalyzer("ports") = PortPreamble \o displayResults(ExpectedResults)

\* Classification has run on a target where one port accepted, one refused
\* and one dropped the connection.
C3_Witness ==
    /\ pc = "ports_done"
    /\ \E i, j, k \in Idx :
          /\ target[i] = "accept" /\ target[j] = "refuse" /\ target[k] = "drop"
    /\ Len(Findings("ports")) = 0
    /\ Logged("ports", "result", "OPEN") = 1

(***************************************************************************)
(* C4.  One result per catalog entry; a result is open exactly when the    *)
(* first event on its socket was connect, closed when it was timeout or    *)
(* error; once a probe has a result no later step changes it; the array    *)
(* returned has as many open entries as sockets connected and the rest,    *)
(* out of 13, closed.                                                      *)
(***************************************************************************)
C4_ProbeInv ==
    /\ \A i \in Idx :
          /\ (promise[i] # <<>>) <=> (sockEvents[i] # <<>>)
          /\ promise[i] # <<>> =>
                /\ promise[i][1].port = commonPorts[i].port
                /\ promise[i][1].open <=> (Head(sockEvents[i]) = "connect")
                /\ ~promise[i][1].open <=> (Head(sockEvents[i]) \in {"timeout", "error"})
    /\ results # <<>> =>
          /\ Len(results[1]) = Len(commonPorts)
          /\ \A i \in Idx : << results[1][i] >> = promise[i]
          /\ Len(SelectSeq(results[1], LAMBDA r : r.open))
                = Cardinality({i \in Idx : Head(sockEvents[i]) = "connect"})
          /\ Len(SelectSeq(results[1], LAMBDA r : ~r.open))
                = Len(commonPorts) - Cardinality({i \in Idx : Head(sockEvents[i]) = "connect"})

C4_ResultFixed ==
    \A i \in Idx : promise[i] # <<>> => promise'[i] = promise[i]

C4_ProbeOutcome == [](C4_ProbeInv) /\ [][C4_ResultFixed]_vars

\* Exactly ports 80 and 443 accepted: 2 open and 11 closed results.
C4_Witness ==
    /\ results # <<>>
    /\ OpenIdx = {HttpIdx, HttpsIdx}
    /\ Len(SelectSeq(results[1], LAMBDA r : r.open)) = 2
    /\ Len(SelectSeq(results[1], LAMBDA r : ~r.open)) = 11

(***************************************************************************)
(* C5.  After classification, for every catalog entry: an open port of     *)
(* tier critical, high or medium has exactly one finding, of that          *)
(* severity; an open low-tier port and a closed port have none; there are  *)
(* no other findings; and with no port open the prober's only output is    *)
(* the one positive informational line.                                    *)
(***************************************************************************)
PortFindings(i) ==
    SelectSeq(log, LAMBDA e :
        e.an = "ports" /\ e.fn = "vulnerability" /\ e.num = commonPorts[i].port)

C5_FindingPerRiskyOpenPort ==
    pc = "ports_done" =>
        /\ \A i \in Idx :
              IF i \in OpenIdx /\ commonPorts[i].risk \in {"critical", "high", "medium"}
              THEN /\ Len(PortFindings(i)) = 1
                   /\ PortFindings(i)[1].sev = commonPorts[i].risk
              ELSE Len(PortFindings(i)) = 0
        /\ Len(Findings("ports"))
              = Cardinality({i \in OpenIdx : commonPorts[i].risk # "low"})
        /\ OpenIdx = {} =>
              /\ Len(Findings("ports")) = 0
              /\ ByAnalyzer("ports")
                    = PortPreamble \o << LogInfo("ports", "no-open-ports-good") >>
        /\ OpenIdx # {} => Logged("ports", "info", "no-open-ports-good") = 0

\* Classified: open ports of all four tiers, and a closed port.
C5_Witness ==
    /\ pc = "ports_done"
    /\ \A tier \in {"critical", "high", "medium", "low"} :
          \E i \in OpenIdx : commonPorts[i].risk = tier
    /\ OpenIdx # Idx

(***************************************************************************)
(* C1.  Failure isolation: the process never ends inside runScanners, and  *)
(* when the scan is over all four analyzers were started and completed,    *)
(* each analyzer in which a network operation failed or no certificate     *)
(* could be retrieved wrote exactly one error-level message, and the       *)
(* others wrote none.                                                      *)
(***************************************************************************)
C1_FailureIsolation ==
    /\ pc # "crashed"
    /\ pc = "done" =>
          /\ started = Analyzers
          /\ completed = {Analyzers[k] : k \in 1..Len(Analyzers)}
          /\ \A k \in 1..Len(Analyzers) :
                Errors(Analyzers[k]) = IF Analyzers[k] \in raised THEN 1 ELSE 0

(***************************************************************************)
(* C6.  Every scan completes: while the process runs, short of the 'Scan   *)
(* completed' report there is always a next step (a continuation to run,   *)
(* or a network event or timer that is bound to arrive).                   *)
(***************************************************************************)
C6_ScanCompletes == pc # "crashed" => (pc = "done" \/ ENABLED Next)

(***************************************************************************)
(* C7.  Unreachable host (no port accepts a connection).                   *)
(* As claimed: each of the four analyzers writes exactly one error line    *)
(* and the analyzers that depend on a response write no finding.           *)
(***************************************************************************)
Unreachable == \A i \in Idx : target[i] # "accept"

C7_OneErrorPerAnalyzer ==
    (pc = "done" /\ Unreachable) =>
        /\ \A k \in 1..Len(Analyzers) : Errors(Analyzers[k]) = 1
        /\ Findings("fingerprint") = <<>>
        /\ Findings("headers") = <<>>

(* C7 as amended: the fingerprint and header analyzers each write one      *)
(* error line and no finding; the TLS Inspector writes one error line and  *)
(* no finding for an HTTPS target, and for a non-HTTPS target no error     *)
(* line but the critical 'unencrypted' finding and a high 'no redirect'    *)
(* finding; the Port Prober writes no error line and no finding, and       *)
(* reports all 13 ports closed as the positive 'no open ports' line.       *)
C7_UnreachableHost ==
    (pc = "done" /\ Unreachable) =>
        /\ Errors("fingerprint") = 1 /\ Findings("fingerprint") = <<>>
        /\ Errors("headers") = 1 /\ Findings("headers") = <<>>
        /\ scheme = "https" => Errors("tls") = 1 /\ Findings("tls") = <<>>
        /\ scheme # "https" =>
              /\ Errors("tls") = 0
              /\ Findings("tls")
                    = << LogVulnerability("tls", "critical", "unencrypted", 0),
                         LogVulnerability("tls", "high", "no-redirect-to-https", 0) >>
        /\ Errors("ports") = 0 /\ Findings("ports") = <<>>
        /\ OpenIdx = {}
        /\ Logged("ports", "info", "no-open-ports-good") = 1

\* The scan of an unreachable HTTPS host is over, its ports having timed out.
C7_Witness ==
    /\ pc = "done"
    /\ Unreachable
    /\ scheme = "https"
    /\ \A i \in Idx : sockEvents[i] = << "timeout" >>
    /\ raised = {"fingerprint", "headers", "tls"}

(***************************************************************************)
(* C8.  No retries: no request and no connect is ever issued twice, and a  *)
(* completed scan issued each exactly once, the TLS connection for an      *)
(* HTTPS target and the plain-HTTP redirect check otherwise.               *)
(***************************************************************************)
C8_AttemptedOnce ==
    /\ attempts.fingerprint <= 1 /\ attempts.headers <= 1
    /\ attempts.tls + attempts.redirect <= 1
    /\ \A i \in Idx : connects[i] <= 1
    /\ pc = "done" =>
          /\ attempts.fingerprint = 1 /\ attempts.headers = 1
          /\ attempts.tls = (IF scheme = "https" THEN 1 ELSE 0)
          /\ attempts.redirect = (IF scheme = "https" THEN 0 ELSE 1)
          /\ \A i \in Idx : connects[i] = 1

\* A scan is over in which three analyzers met a failure.
C8_Witness ==
    /\ pc = "done"
    /\ raised = {"fingerprint", "headers", "tls"}
    /\ \E i \in Idx : sockEvents[i] = << "error" >>

(***************************************************************************)
(* C9.  The analyzers run one after another in the order fingerprint,      *)
(* headers, TLS, ports: the analyzers started so far are a prefix of that  *)
(* order, every one but the last started has completed, only the last      *)
(* started has a network operation outstanding, and the log is grouped by  *)
(* analyzer in that order.                                                 *)
(***************************************************************************)
AnalyzerIndex(an) ==
    IF \E k \in 1..Len(Analyzers) : Analyzers[k] = an
    THEN CHOOSE k \in 1..Len(Analyzers) : Analyzers[k] = an
    ELSE Len(Analyzers) + 1

\* The analyzers with a request or a connection attempt in flight.
Outstanding ==
    {an \in {"fingerprint", "headers", "tls"} :
        (\E k \in 1..Len(started) : started[k] = an) /\ an \notin completed}
    \cup (IF \E i \in Idx : sock[i] = "connecting" THEN {"ports"} ELSE {})

C9_Sequential ==
    /\ Len(started) <= Len(Analyzers)
    /\ started = SubSeq(Analyzers, 1, Len(started))
    /\ \A k \in 1..(Len(started) - 1) : started[k] \in completed
    /\ \A an \in Outstanding : an = started[Len(started)]
    /\ \A k \in 1..(Len(log) - 1) :
          AnalyzerIndex(log[k].an) <= AnalyzerIndex(log[k + 1].an)

\* The last port probe is still in flight; the three other analyzers are done.
C9_Witness ==
    /\ pc = "ports_wait"
    /\ Outstanding = {"ports"}
    /\ Cardinality({i \in Idx : sock[i] = "connecting"}) = 1
    /\ completed = {"fingerprint", "headers", "tls"}

(***************************************************************************)
(* C10.  A target that is not HTTPS: once the TLS Inspector is done it has *)
(* written exactly one critical finding ('unencrypted'), made one plain    *)
(* HTTP request and no TLS connection, and written exactly one high        *)
(* finding unless it reported the redirect as present.                     *)
(***************************************************************************)
C10_NonHttpsTarget ==
    (scheme # "https" /\ "tls" \in completed) =>
        /\ FindingsOf("tls", "critical") = 1
        /\ Logged("tls", "vulnerability", "unencrypted") = 1
        /\ attempts.redirect = 1
        /\ attempts.tls = 0 /\ tlsSocket = "none"
        /\ FindingsOf("tls", "high")
              = (IF Logged("tls", "result", "redirect-present") = 1 THEN 0 ELSE 1)

(***************************************************************************)
(* The header rules, stated from the headers the response carried.         *)
(***************************************************************************)
\* The header analyzer has evaluated the response it was given.
HeadersAnswered == "headers" \in completed /\ "headers" \notin raised

\* How many findings with one of these messages the header analyzer wrote.
HeaderFindings(msgs, severity) ==
    Len(SelectSeq(log, LAMBDA e : /\ e.an = "headers"
                                  /\ e.fn = "vulnerability"
                                  /\ e.msg \in msgs
                                  /\ e.sev = severity))

HeaderFindingsAny(msgs) ==
    Len(SelectSeq(log, LAMBDA e : /\ e.an = "headers"
                                  /\ e.fn = "vulnerability"
                                  /\ e.msg \in msgs))

HstsMessages == {"hsts-max-age-low", "hsts-missing"}

\* The max-age a Strict-Transport-Security value declares, -1 if none.
\* Directive names are case-insensitive (RFC 6797, section 6.1).
DeclaredMaxAge(hsts) ==
    LET lower == toLowerCase(hsts)
        at == maxAgeMatches(lower)
        first == CHOOSE k \in at : \A j \in at : k <= j
    IN  IF at = {} THEN -1
        ELSE parseInt(digitRun(lower, first + Len(str_maxage)))

(***************************************************************************)
(* C11.  A Strict-Transport-Security value that declares a max-age below   *)
(* 15552000 gets exactly one medium HSTS finding and no other HSTS         *)
(* finding; one that declares 15552000 or more gets no HSTS finding.       *)
(***************************************************************************)
C11_HstsMaxAgeThreshold ==
    HeadersAnswered =>
        LET maxAge == DeclaredMaxAge(input.headers["strict-transport-security"])
        IN  maxAge >= 0 =>
              /\ HeaderFindings(HstsMessages, "medium")
                    = (IF maxAge < 15552000 THEN 1 ELSE 0)
              /\ HeaderFindingsAny(HstsMessages)
                    = HeaderFindings(HstsMessages, "medium")

(***************************************************************************)
(* C12.  The HSTS rule writes no finding only when the header is present   *)
(* and declares a max-age of at least 15552000; it writes one high finding *)
(* when the header is absent and one medium finding when it is present     *)
(* without meeting the threshold; and its result record is marked secure   *)
(* exactly when it writes no finding.                                      *)
(***************************************************************************)
C12_HstsSecureCondition ==
    HeadersAnswered =>
        LET hsts == input.headers["strict-transport-security"]
            meets == hsts # <<>> /\ DeclaredMaxAge(hsts) >= 15552000
            records == SelectSeq(log, LAMBDA e :
                           /\ e.an = "headers" /\ e.fn = "result"
                           /\ e.msg \in {"hsts-present", "hsts-missing"})
        IN  /\ HeaderFindings(HstsMessages, "high") = (IF hsts = <<>> THEN 1 ELSE 0)
            /\ HeaderFindings(HstsMessages, "medium")
                  = (IF hsts # <<>> /\ ~meets THEN 1 ELSE 0)
            /\ HeaderFindingsAny(HstsMessages) = (IF meets THEN 0 ELSE 1)
            /\ Len(records) = 1
            /\ (records[1].sev = "good") <=> (HeaderFindingsAny(HstsMessages) = 0)

\* Two characters that are the same letter in either case, or the same.
SameLetter(c, d) ==
    \/ c = d
    \/ \E j \in 1..Len(lowerLetters) : {c, d} = {lowerLetters[j], upperLetters[j]}

EqualsIgnoreCase(a, b) ==
    /\ Len(a) = Len(b)
    /\ \A k \in 1..Len(a) : SameLetter(a[k], b[k])

XfoMessages == {"x-frame-options-weak", "x-frame-options-missing"}

(***************************************************************************)
(* C13.  An X-Frame-Options value that is DENY or SAMEORIGIN in any letter *)
(* case gets no X-Frame-Options finding; every other value, the absent     *)
(* header included, gets exactly one, and it is medium.                    *)
(***************************************************************************)
C13_XFrameOptions ==
    HeadersAnswered =>
        LET xfo == input.headers["x-frame-options"]
            inSet == \/ EqualsIgnoreCase(xfo, str_DENY)
                     \/ EqualsIgnoreCase(xfo, str_SAMEORIGIN)
        IN  /\ HeaderFindings(XfoMessages, "medium") = (IF inSet THEN 0 ELSE 1)
            /\ HeaderFindingsAny(XfoMessages) = HeaderFindings(XfoMessages, "medium")

\* The rule has accepted 'SameOrigin', written in mixed case.
C13_Witness ==
    /\ HeadersAnswered
    /\ input.headers["x-frame-options"]
          = << "S", "a", "m", "e", "O", "r", "i", "g", "i", "n" >>
    /\ HeaderFindingsAny(XfoMessages) = 0
    /\ Logged("headers", "result", "x-frame-options-value") = 1

(***************************************************************************)
(* C18.  Whatever the status of the response, the header analyzer writes   *)
(* the output of all seven rules, in the order of the code, and the output *)
(* of each rule is what that rule writes when it is given its own          *)
(* header(s) alone: one result record and at most one finding.             *)
(***************************************************************************)
\* The received headers with every header but the named ones removed.
Own(names) ==
    [n \in HeaderNames |-> IF n \in names THEN input.headers[n] ELSE <<>>]

RuleOutputs ==
    << checkCSP(Own({"content-security-policy"})),
       checkHSTS(Own({"strict-transport-security"})),
       checkXFrameOptions(Own({"x-frame-options"})),
       checkXContentTypeOptions(Own({"x-content-type-options"})),
       checkXSSProtection(Own({"x-xss-protection"})),
       checkReferrerPolicy(Own({"referrer-policy"})),
       checkPermissionsPolicy(Own({"permissions-policy", "feature-policy"})) >>

CountOf(entries, fn) == Len(SelectSeq(entries, LAMBDA e : e.fn = fn))

C18_SevenIndependentRules ==
    "headers" \in completed =>
        LET outs == RuleOutputs
        IN  /\ log = << LogSection("headers") >>
                       \o outs[1] \o outs[2] \o outs[3] \o outs[4]
                       \o outs[5] \o outs[6] \o outs[7]
            /\ \A r \in 1..Len(outs) :
                  /\ CountOf(outs[r], "result") = 1
                  /\ CountOf(outs[r], "vulnerability") <= 1
            /\ CountOf(log, "result") = 7
            /\ CountOf(log, "error") = 0

\* A 500 response without CSP and with a short HSTS max-age has been analyzed.
C18_Witness ==
    /\ "headers" \in completed
    /\ input.status = 500
    /\ input.headers["content-security-policy"] = <<>>
    /\ input.headers["strict-transport-security"]
          = str_maxage \o << "0" >>
    /\ CountOf(log, "result") = 7
    /\ HeaderFindings({"csp-missing"}, "high") = 1
    /\ HeaderFindings(HstsMessages, "medium") = 1

(***************************************************************************)
(* The certificate checks, stated from the certificate the target sent.    *)
(***************************************************************************)
\* The response callback of checkCertificate has run on a certificate.
CertAnswered == tlsSocket = "open" /\ ~input.session.certEmpty

TlsFindings(msgs) ==
    SelectSeq(log, LAMBDA e : e.an = "tls" /\ e.fn = "vulnerability" /\ e.msg \in msgs)

ValidityMessages ==
    {"certificate-not-valid-until", "certificate-expired-on", "certificate-expires-soon"}

\* The one medium finding that names d whole days remaining, the time left
\* being at least d and less than d + 1 days.
NamesDaysRemaining(findings, left) ==
    /\ Len(findings) = 1
    /\ findings[1].sev = "medium"
    /\ findings[1].msg = "certificate-expires-soon"
    /\ findings[1].num * HoursPerDay <= left
    /\ left < (findings[1].num + 1) * HoursPerDay

\* The validity findings are those of a check that warns of the expiry
\* exactly when `warn` holds.
ValidityOutcome(warn) ==
    LET cert == input.session.cert
        now == input.session.now
        found == TlsFindings(ValidityMessages)
    IN  IF now < cert.valid_from
        THEN found = << LogVulnerability("tls", "critical",
                                         "certificate-not-valid-until", 0) >>
        ELSE IF now > cert.valid_to
        THEN found = << LogVulnerability("tls", "critical",
                                         "certificate-expired-on", 0) >>
        ELSE IF warn
        THEN NamesDaysRemaining(found, cert.valid_to - now)
        ELSE found = <<>>

\* the time left until valid_to
TimeLeft == input.session.cert.valid_to - input.session.now

(***************************************************************************)
(* C14.  As claimed: critical 'not yet valid' before validFrom, critical   *)
(* 'expired' after validTo, otherwise a medium finding naming the whole    *)
(* days remaining when validTo is within 30 days of now (30 days to the    *)
(* hour included) and no validity finding when it is more than 30 days     *)
(* away.                                                                   *)
(***************************************************************************)
C14_Within30Days ==
    CertAnswered => ValidityOutcome(TimeLeft <= 30 * HoursPerDay)

(* C14 as amended: the medium finding is written when fewer than 30 whole  *)
(* days remain, that is when validTo is less than 30 days away; a          *)
(* certificate with 30 days or more to go gets no validity finding.        *)
C14_ValidityCheck ==
    CertAnswered => ValidityOutcome(TimeLeft < 30 * HoursPerDay)

\* A certificate with an hour less than 30 days to go was reported with 29
\* days remaining.
C14_Witness ==
    /\ CertAnswered
    /\ TimeLeft = 30 * HoursPerDay - 1
    /\ TlsFindings(ValidityMessages)
          = << LogVulnerability("tls", "medium", "certificate-expires-soon", 29) >>

(***************************************************************************)
(* C15.  A retrieved certificate gets exactly one high 'self-signed'       *)
(* finding when its issuer CN equals its subject CN and none otherwise,    *)
(* whatever its validity period.                                           *)
(***************************************************************************)
C15_SelfSigned ==
    CertAnswered =>
        LET cert == input.session.cert
            found == TlsFindings({"self-signed"})
        IN  /\ Len(found) = (IF cert.issuer.CN = cert.subject.CN THEN 1 ELSE 0)
            /\ \A k \in 1..Len(found) : found[k].sev = "high"

(***************************************************************************)
(* C16.  The subject check accepts a certificate with a subject CN exactly *)
(* when the CN is the hostname, or is *.domain and the hostname ends in    *)
(* .domain with the dot; in every other case it writes one high mismatch   *)
(* finding.                                                                *)
(***************************************************************************)
C16_SubjectMatchesHostname ==
    (CertAnswered /\ input.session.cert.subject.CN.type = "string") =>
        LET cn == input.session.cert.subject.CN
            hostname == input.hostname
            accepts ==
                /\ cn.type = "string"
                /\ \/ cn.str = hostname
                   \/ /\ startsWith(cn.str, str_wildcard)
                      /\ endsWith(hostname, substring(cn.str, 1))
            mismatch == TlsFindings({"certificate-cn-mismatch"})
        IN  /\ Logged("tls", "info", "certificate-matches-hostname")
                  = (IF accepts THEN 1 ELSE 0)
            /\ Len(mismatch) = (IF accepts THEN 0 ELSE 1)
            /\ \A k \in 1..Len(mismatch) : mismatch[k].sev = "high"

(***************************************************************************)
(* The Server header check, stated from the header the response carried.   *)
(***************************************************************************)
FingerprintAnswered == "fingerprint" \in completed /\ "fingerprint" \notin raised

\* str holds one or more digits, a dot, and one or more digits, in a row.
ContainsVersion(str) ==
    \E a \in 1..Len(str), b \in 1..Len(str), c \in 1..Len(str) :
        /\ a <= b /\ b + 2 <= c
        /\ \A k \in a..b : IsDigit(str[k])
        /\ str[b + 1] = "."
        /\ \A k \in (b + 2)..c : IsDigit(str[k])

ContainsIgnoreCase(text, word) ==
    \E k \in 1..Len(text) :
        /\ k + Len(word) - 1 <= Len(text)
        /\ EqualsIgnoreCase(SubSeq(text, k, k + Len(word) - 1), word)

\* The note of each server family and the words that stand for it.
Families ==
    << [note |-> "detected-nginx", words |-> {str_nginx}],
       [note |-> "detected-apache", words |-> {str_apache}],
       [note |-> "detected-iis", words |-> {str_iis, str_microsoft}],
       [note |-> "detected-cloudflare", words |-> {str_cloudflare}],
       [note |-> "detected-lighttpd", words |-> {str_lighttpd}],
       [note |-> "detected-caddy", words |-> {str_caddy}] >>

Names(server, f) == \E w \in Families[f].words : ContainsIgnoreCase(server, w)

FamilyNotes ==
    SelectSeq(log, LAMBDA e :
        /\ e.an = "fingerprint" /\ e.fn = "info"
        /\ \E f \in 1..Len(Families) : e.msg = Families[f].note)

ServerFindings ==
    SelectSeq(log, LAMBDA e :
        /\ e.an = "fingerprint" /\ e.fn = "vulnerability"
        /\ e.msg = "server-version-disclosed")

(***************************************************************************)
(* C19.  An absent Server header is reported as a secure 'not disclosed'   *)
(* result with no finding; a present value with a digits.digits version    *)
(* gets exactly one medium version-disclosure finding and one without gets *)
(* none; and a present value gets at most one family note, that of the     *)
(* first family (in the order nginx, apache, IIS, cloudflare, lighttpd,    *)
(* caddy) whose word the value contains in any letter case.                *)
(***************************************************************************)
C19_ServerHeader ==
    FingerprintAnswered =>
        LET server == input.headers["server"]
        IN  /\ server = <<>> =>
                  /\ Logged("fingerprint", "result", "server-not-disclosed") = 1
                  /\ \E k \in 1..Len(log) :
                        log[k].msg = "server-not-disclosed" /\ log[k].sev = "good"
                  /\ ServerFindings = <<>>
                  /\ FamilyNotes = <<>>
            /\ server # <<>> =>
                  /\ Logged("fingerprint", "result", "server-not-disclosed") = 0
                  /\ ServerFindings
                        = (IF ContainsVersion(server)
                           THEN << LogVulnerability("fingerprint", "medium",
                                                    "server-version-disclosed", 0) >>
                           ELSE <<>>)
                  /\ Len(FamilyNotes) <= 1
                  /\ \A f \in 1..Len(Families) :
                        Logged("fingerprint", "info", Families[f].note)
                           = (IF /\ Names(server, f)
                                 /\ \A g \in 1..(f - 1) : ~Names(server, g)
                              THEN 1 ELSE 0)

\* 'nginx/1.18.0' got one medium finding and the nginx note.
C19_Witness ==
    /\ FingerprintAnswered
    /\ input.headers["server"]
          = << "n", "g", "i", "n", "x", "/", "1", ".", "1", "8", ".", "0" >>
    /\ Len(ServerFindings) = 1
    /\ Logged("fingerprint", "info", "detected-nginx") = 1

(***************************************************************************)
(* C17.  A URL that fails validation ends the process with exit code 1     *)
(* before any analyzer is started or any request is made; a URL given      *)
(* without scheme is scanned as https://; and exit code 0 is that of a run *)
(* whose URL was valid and whose scan completed, which is how every        *)
(* completed scan ends.                                                    *)
(***************************************************************************)
ScanCompleted == Logged("orchestrator", "info", "scan-completed") = 1

C17_ExitCodes ==
    LET url == input.argv
        invalid == validateURL(url).isNull
    IN  /\ invalid =>
              /\ pc \in {"start", "exit_1"}
              /\ started = <<>>
              /\ attempts = NoRequests
              /\ \A i \in Idx : connects[i] = 0
        /\ pc = "exit_1" =>
              /\ invalid
              /\ Logged("orchestrator", "error", "invalid-url-format") = 1
        /\ (~invalid /\ pc # "start") =>
              scheme = (IF startsWith(url, str_http) THEN "http" ELSE "https")
        /\ pc = "exit_0" => ~invalid /\ ScanCompleted /\ started = Analyzers
        /\ ScanCompleted => pc \in {"done", "exit_0"}
        /\ pc = "done" => ENABLED run_finish

\* The scan of 'a.io', typed without scheme, has ended with exit code 0.
C17_Witness ==
    /\ pc = "exit_0"
    /\ input.argv = << "a", ".", "i", "o" >>
    /\ scheme = "https"
    /\ attempts.tls = 1

====
